---------------------------- MODULE Spec2Model ----------------------------
(***************************************************************************)
(* The notebook yolov8-train-wandb.ipynb as a state machine: the code      *)
(* cells run top to bottom, an uncaught exception stops the execution, and *)
(* the last cell drives train_yolo_with_wandb over the hyperparameter      *)
(* grid.  Delegated calls (pip, roboflow, wandb, ultralytics) either       *)
(* return or raise.                                                        *)
(***************************************************************************)
EXTENDS Integers, Sequences, FiniteSets, TLC

\* Largest extra epoch count / batch size considered besides the grid's own.
MaxNum == 12

-----------------------------------------------------------------------------
\* Grid lists and literals of the notebook.

versions == <<"n", "s", "m", "l", "x">>
epochs == <<50, 100, 150, 200>>
batch_sizes == <<2, 4, 8, 16>>
optimizers == <<"Adam", "SGD">>
weight_decay == "0.0005"
warmup_epochs == 3

-----------------------------------------------------------------------------
\* Python values.

\* os.getenv yields None or a string.
None == [isNone |-> TRUE, s |-> ""]
Str(s) == [isNone |-> FALSE, s |-> s]
\* Mutant: only None counts as missing, the empty string passes.
Truthy_NoneOnly(v) == ~v.isNone

\* Truth value of an optional string: None and "" are falsy.
Truthy(v) == ~v.isNone /\ v.s # ""
ApiKeys == {None, Str(""), Str("rf_key")}

Digit(d) ==
  CASE d = 0 -> "0" [] d = 1 -> "1" [] d = 2 -> "2" [] d = 3 -> "3"
    [] d = 4 -> "4" [] d = 5 -> "5" [] d = 6 -> "6" [] d = 7 -> "7"
    [] d = 8 -> "8" [] d = 9 -> "9"

\* str(n) of a non-negative int, as an f-string renders it.
RECURSIVE IntToStr(_)
IntToStr(n) == IF n < 10 THEN Digit(n) ELSE IntToStr(n \div 10) \o Digit(n % 10)

-----------------------------------------------------------------------------
\* pathlib: a Path is the sequence of its components below the root.

PathParent(p) == IF Len(p) = 0 THEN p ELSE SubSeq(p, 1, Len(p) - 1)
PathJoin(p, name) == Append(p, name)

\* str(path): the first n components, each after a "/".
RECURSIVE JoinParts(_, _)
JoinParts(p, n) == IF n = 0 THEN "" ELSE JoinParts(p, n - 1) \o "/" \o p[n]
PathStr(p) == JoinParts(p, Len(p))

Ancestors(p) == {SubSeq(p, 1, n) : n \in 1..(Len(p) - 1)}

\* Mutant: exist_ok is dropped, an existing directory raises FileExistsError.
Mkdir_ExistOkIgnored(dirs, p, parents, exist_ok) ==
  IF p \in dirs
    THEN [ok |-> FALSE, dirs |-> dirs]
    ELSE IF ~parents /\ Len(p) > 1 /\ PathParent(p) \notin dirs
      THEN [ok |-> FALSE, dirs |-> dirs]
      ELSE [ok |-> TRUE, dirs |-> dirs \cup Ancestors(p) \cup {p}]

\* Path.mkdir(parents, exist_ok) on the set of existing directories.
Mkdir(dirs, p, parents, exist_ok) ==
  IF p \in dirs
    THEN [ok |-> exist_ok, dirs |-> dirs]
    ELSE IF ~parents /\ Len(p) > 1 /\ PathParent(p) \notin dirs
      THEN [ok |-> FALSE, dirs |-> dirs]
      ELSE [ok |-> TRUE, dirs |-> dirs \cup Ancestors(p) \cup {p}]

\* Directories the notebook may be launched from.
LaunchDirs == {<<"work", "repo", "notebooks">>, <<"home", "user", "yolo", "nb">>}

-----------------------------------------------------------------------------
VARIABLES
  launchDir,  \* working directory the kernel starts in
  api_key,    \* ROBOFLOW_API_KEY as os.getenv sees it after load_dotenv()
  fs,         \* directories that exist
  cwd,        \* current working directory of the kernel
  BASE,       \* Path.cwd().parent, set by the project directory cell
  pc,         \* the cell being (or about to be) executed
  status,     \* "running", "done" or "error"
  err,        \* the exception that stopped the execution
  effects,    \* delegated work invoked so far in this execution
  idx,        \* loop position <<version, epoch, batch_size, optimizer>> (1-based)
  step,       \* position inside train_yolo_with_wandb
  sessions,   \* wandb sessions opened and not finished, oldest first
  model,      \* checkpoint loaded by YOLO(...), "" if none
  training,   \* model.train calls in progress, each with its device
  made,       \* str(experiment_path) of each mkdir, in order, this execution
  opened,     \* number of wandb.init calls that returned, this execution
  closed,     \* number of wandb.finish calls that returned
  started,    \* arguments of the runs whose model.train was called, in order
  returned,   \* number of model.train calls that returned
  failed      \* arguments of the runs whose model.train raised

vars == <<launchDir, api_key, fs, cwd, BASE, pc, status, err, effects, idx, step,
          sessions, model, training, made, opened, closed, started,
          returned, failed>>

env == <<launchDir, api_key>>
kernel == <<cwd, BASE>>
run == <<sessions, model, training>>
history == <<made, opened, closed, started, returned, failed>>

HOME == PathJoin(BASE, "yolov8")
DATASETS_PATH == PathJoin(HOME, "datasets")
dataset_location == PathStr(PathJoin(DATASETS_PATH, "TA-5"))


-----------------------------------------------------------------------------
\* train_yolo_with_wandb: values derived from its arguments.

Args(x) == [version |-> versions[x[1]], epoch |-> epochs[x[2]],
            batch_size |-> batch_sizes[x[3]], optimizer |-> optimizers[x[4]]]

base_dir(home, version) ==
  PathJoin(PathJoin(home, "experiments"), "yolov8" \o version)

\* Mutant: the optimizer is left out of the directory name.
experiment_name_NoOptimizer(epoch, batch_size, optimizer) ==
  "epoch_" \o IntToStr(epoch) \o "_batch_" \o IntToStr(batch_size)

experiment_name(epoch, batch_size, optimizer) ==
  "epoch_" \o IntToStr(epoch) \o "_batch_" \o IntToStr(batch_size)
    \o "_optimizer_" \o optimizer

experiment_path(home, a) ==
  PathJoin(base_dir(home, a.version),
           experiment_name(a.epoch, a.batch_size, a.optimizer))

\* Mutant: the run name joins version and experiment name with "_".
run_name_Underscore(a) ==
  "yolov8" \o a.version \o "_" \o experiment_name(a.epoch, a.batch_size, a.optimizer)

run_name(a) ==
  "yolov8" \o a.version \o "-" \o experiment_name(a.epoch, a.batch_size, a.optimizer)

\* Mutant: epochs and batch_size are swapped in the session's config.
WandbInitArgs_SwappedConfig(home, a) ==
  [name |-> run_name(a),
   config |-> [epochs |-> a.batch_size, batch_size |-> a.epoch,
               optimizer |-> a.optimizer, version |-> a.version],
   dir |-> PathStr(experiment_path(home, a))]

\* The arguments of wandb.init.
WandbInitArgs(home, a) ==
  [name |-> run_name(a),
   config |-> [epochs |-> a.epoch, batch_size |-> a.batch_size,
               optimizer |-> a.optimizer, version |-> a.version],
   dir |-> PathStr(experiment_path(home, a))]

checkpoint(a) == "yolov8" \o a.version \o ".pt"

\* The arguments of model.train, with the model it is called on.
TrainArgs(home, a, location, m, dev) ==
  [model |-> m,
   device |-> dev,
   data |-> location \o "/data.yaml",
   epochs |-> a.epoch,
   batch |-> a.batch_size,
   optimizer |-> a.optimizer,
   weight_decay |-> weight_decay,
   warmup_epochs |-> warmup_epochs,
   save_dir |-> PathStr(experiment_path(home, a))]

\* The nested for loops: the position after x, optimizer innermost.
LastIdx == <<Len(versions), Len(epochs), Len(batch_sizes), Len(optimizers)>>
\* Mutant: the optimizer loop is not restarted when the batch size advances.
NextIdx_KeepOptimizer(x) ==
  IF x[4] < Len(optimizers) THEN <<x[1], x[2], x[3], x[4] + 1>>
  ELSE IF x[3] < Len(batch_sizes) THEN <<x[1], x[2], x[3] + 1, x[4]>>
  ELSE IF x[2] < Len(epochs) THEN <<x[1], x[2] + 1, 1, 1>>
  ELSE <<x[1] + 1, 1, 1, 1>>

\* Mutant: the batch size loop is nested inside the optimizer loop.
NextIdx_BatchInnermost(x) ==
  IF x[3] < Len(batch_sizes) THEN <<x[1], x[2], x[3] + 1, x[4]>>
  ELSE IF x[4] < Len(optimizers) THEN <<x[1], x[2], 1, x[4] + 1>>
  ELSE IF x[2] < Len(epochs) THEN <<x[1], x[2] + 1, 1, 1>>
  ELSE <<x[1] + 1, 1, 1, 1>>

NextIdx(x) ==
  IF x[4] < Len(optimizers) THEN <<x[1], x[2], x[3], x[4] + 1>>
  ELSE IF x[3] < Len(batch_sizes) THEN <<x[1], x[2], x[3] + 1, 1>>
  ELSE IF x[2] < Len(epochs) THEN <<x[1], x[2] + 1, 1, 1>>
  ELSE <<x[1] + 1, 1, 1, 1>>

-----------------------------------------------------------------------------
\* ensure_package_installed: the package imports, or pip installs it, or pip
\* fails and check_call raises.
ensure_package_installed ==
  {[installed |-> FALSE, raised |-> FALSE],
   [installed |-> TRUE, raised |-> FALSE],
   [installed |-> TRUE, raised |-> TRUE]}

\* Every call imports the package or runs pip for it.
PipEffect(o) == {"ensure_package_installed"}

\* An uncaught exception ends the execution where it is.
Raise(e) ==
  /\ status' = "error"
  /\ err' = e
  /\ UNCHANGED pc

Goto(cell) ==
  /\ pc' = cell
  /\ UNCHANGED <<status, err>>

ProcessStart ==
  /\ cwd = launchDir
  /\ BASE = <<>>
  /\ pc = "gpu_check"
  /\ status = "running"
  /\ err = ""
  /\ effects = {}
  /\ idx = <<1, 1, 1, 1>>
  /\ step = ""
  /\ sessions = <<>>
  /\ model = ""
  /\ training = <<>>
  /\ made = <<>>
  /\ opened = 0
  /\ closed = 0
  /\ started = <<>>
  /\ returned = 0
  /\ failed = {}

Init ==
  /\ launchDir \in LaunchDirs
  /\ api_key \in ApiKeys
  /\ fs = Ancestors(launchDir) \cup {launchDir}
  /\ ProcessStart

\* !nvidia-smi
GpuCheck ==
  /\ status = "running" /\ pc = "gpu_check"
  /\ effects' = effects \cup {"nvidia-smi"}
  /\ Goto("project_setup")
  /\ UNCHANGED <<env, fs, kernel, idx, step, run, history>>

\* Mutant: the datasets directory is never created.
ProjectSetup_NoMkdir ==
  /\ status = "running" /\ pc = "project_setup"
  /\ BASE' = PathParent(cwd)
  /\ effects' = effects \cup {"mkdir datasets"}
  /\ Goto("install_yolo")
  /\ UNCHANGED <<env, fs, cwd, idx, step, run, history>>

\* BASE, HOME, DATASETS_PATH; DATASETS_PATH.mkdir(parents=True, exist_ok=True)
ProjectSetup ==
  /\ status = "running" /\ pc = "project_setup"
  /\ BASE' = PathParent(cwd)
  /\ LET r == Mkdir(fs, PathJoin(PathJoin(BASE', "yolov8"), "datasets"), TRUE, TRUE)
     IN /\ fs' = r.dirs
        /\ effects' = effects \cup {"mkdir datasets"}
        /\ IF r.ok THEN Goto("install_yolo") ELSE Raise("FileExistsError")
  /\ UNCHANGED <<env, cwd, idx, step, run, history>>

\* ensure_package_installed("ultralytics"); import; ultralytics.checks()
InstallYolo ==
  /\ status = "running" /\ pc = "install_yolo"
  /\ \E o \in ensure_package_installed, ok \in BOOLEAN :
       /\ effects' = effects \cup PipEffect(o)
                       \cup (IF o.raised THEN {} ELSE {"ultralytics.checks"})
       /\ IF o.raised THEN Raise("CalledProcessError")
          ELSE IF ~ok THEN Raise("Exception")
          ELSE Goto("inference")
  /\ UNCHANGED <<env, fs, kernel, idx, step, run, history>>

\* %cd {HOME}; !yolo ... mode=predict; display(Image(...))
Inference ==
  /\ status = "running" /\ pc = "inference"
  /\ cwd' = HOME
  /\ effects' = effects \cup {"yolo predict"}
  /\ \E ok \in BOOLEAN :
       IF ok THEN Goto("credentials") ELSE Raise("FileNotFoundError")
  /\ UNCHANGED <<env, fs, BASE, idx, step, run, history>>

\* ensure dotenv and roboflow; load_dotenv(); the api_key check
Credentials ==
  /\ status = "running" /\ pc = "credentials"
  /\ \E o1 \in ensure_package_installed, o2 \in ensure_package_installed :
       IF o1.raised
         THEN /\ effects' = effects \cup PipEffect(o1)
              /\ Raise("CalledProcessError")
       ELSE IF o2.raised
         THEN /\ effects' = effects \cup PipEffect(o1) \cup PipEffect(o2)
              /\ Raise("CalledProcessError")
       ELSE /\ effects' = effects \cup PipEffect(o1) \cup PipEffect(o2)
                            \cup {"load_dotenv"}
            /\ IF ~Truthy(api_key) THEN Raise("ValueError") ELSE Goto("download")
  /\ UNCHANGED <<env, fs, kernel, idx, step, run, history>>

\* os.chdir(DATASETS_PATH); Roboflow(...).workspace(...).project(...).version(5).download
Download ==
  /\ status = "running" /\ pc = "download"
  /\ cwd' = DATASETS_PATH
  /\ effects' = effects \cup {"roboflow download"}
  /\ \E ok \in BOOLEAN :
       IF ok THEN Goto("wandb_setup") ELSE Raise("Exception")
  /\ UNCHANGED <<env, fs, BASE, idx, step, run, history>>

\* ensure wandb and torch; wandb.login(); then the grid cell starts its loops
WandbSetup ==
  /\ status = "running" /\ pc = "wandb_setup"
  /\ \E o1 \in ensure_package_installed, o2 \in ensure_package_installed,
        ok \in BOOLEAN :
       IF o1.raised
         THEN /\ effects' = effects \cup PipEffect(o1)
              /\ Raise("CalledProcessError")
              /\ UNCHANGED <<idx, step>>
       ELSE IF o2.raised
         THEN /\ effects' = effects \cup PipEffect(o1) \cup PipEffect(o2)
              /\ Raise("CalledProcessError")
              /\ UNCHANGED <<idx, step>>
       ELSE /\ effects' = effects \cup PipEffect(o1) \cup PipEffect(o2)
                            \cup {"wandb.login"}
            /\ IF ok
                 THEN /\ Goto("grid")
                      /\ idx' = <<1, 1, 1, 1>>
                      /\ step' = "mkdir"
                 ELSE /\ Raise("Exception")
                      /\ UNCHANGED <<idx, step>>
  /\ UNCHANGED <<env, fs, kernel, run, history>>


-----------------------------------------------------------------------------
\* The grid cell: train_yolo_with_wandb(version, epoch, batch_size, optimizer,
\* dataset_location) at loop position idx, one action per call it makes.

InRun(s) == status = "running" /\ pc = "grid" /\ step = s

\* os.chdir(DATASETS_PATH); experiment_path.mkdir(parents=True, exist_ok=True)
MakeExperimentDir ==
  /\ InRun("mkdir")
  /\ cwd' = DATASETS_PATH
  /\ LET p == experiment_path(HOME, Args(idx))
         r == Mkdir(fs, p, TRUE, TRUE)
     IN /\ fs' = r.dirs
        /\ IF r.ok
             THEN /\ made' = Append(made, PathStr(p))
                  /\ step' = "init"
                  /\ UNCHANGED <<pc, status, err>>
             ELSE /\ Raise("FileExistsError")
                  /\ UNCHANGED <<made, step>>
  /\ UNCHANGED <<env, BASE, effects, idx, run, opened, closed, started, returned,
                 failed>>

\* wandb.init(project=..., name=..., config=..., dir=str(experiment_path))
WandbInit ==
  /\ InRun("init")
  /\ \E ok \in BOOLEAN :
       IF ok
         THEN /\ sessions' = Append(sessions, WandbInitArgs(HOME, Args(idx)))
              /\ opened' = opened + 1
              /\ step' = "load"
              /\ UNCHANGED <<pc, status, err>>
         ELSE /\ Raise("Exception")
              /\ UNCHANGED <<sessions, opened, step>>
  /\ UNCHANGED <<env, fs, kernel, effects, idx, model, training, made, closed,
                 started, returned, failed>>

\* model = YOLO(f"yolov8{version}.pt")
LoadModel ==
  /\ InRun("load")
  /\ \E ok \in BOOLEAN :
       IF ok
         THEN /\ model' = checkpoint(Args(idx))
              /\ step' = "train"
              /\ UNCHANGED <<pc, status, err>>
         ELSE /\ Raise("Exception")
              /\ UNCHANGED <<model, step>>
  /\ UNCHANGED <<env, fs, kernel, effects, idx, sessions, training, history>>

\* device = "cuda" if torch.cuda.is_available() else "cpu"; model.train(...) is entered
TrainCall ==
  /\ InRun("train")
  /\ \E cuda \in BOOLEAN :
       training' = Append(training,
                          TrainArgs(HOME, Args(idx), dataset_location, model,
                                    IF cuda THEN "cuda" ELSE "cpu"))
  /\ started' = Append(started, Args(idx))
  /\ step' = "training"
  /\ UNCHANGED <<env, fs, kernel, pc, status, err, effects, idx, sessions, model,
                 made, opened, closed, returned, failed>>

\* model.train(...) returns
TrainReturn ==
  /\ InRun("training")
  /\ training' = SubSeq(training, 1, Len(training) - 1)
  /\ returned' = returned + 1
  /\ step' = "finish"
  /\ UNCHANGED <<env, fs, kernel, pc, status, err, effects, idx, sessions, model,
                 made, opened, closed, started, failed>>

\* Mutant: the exception is swallowed and the loop goes on.
TrainFail_SkipAndContinue ==
  /\ InRun("training")
  /\ failed' = failed \cup {Args(idx)}
  /\ training' = SubSeq(training, 1, Len(training) - 1)
  /\ step' = "finish"
  /\ UNCHANGED <<env, fs, kernel, pc, status, err, effects, idx, sessions, model,
                 made, opened, closed, started, returned>>

\* model.train(...) raises: nothing catches it, the cell stops
TrainFail ==
  /\ InRun("training")
  /\ failed' = failed \cup {Args(idx)}
  /\ training' = SubSeq(training, 1, Len(training) - 1)
  /\ Raise("Exception")
  /\ UNCHANGED <<env, fs, kernel, effects, idx, step, sessions, model, made,
                 opened, closed, started, returned>>

\* wandb.finish(); the function returns; the next iteration of the nested loops
WandbFinish ==
  /\ InRun("finish")
  /\ \E ok \in BOOLEAN :
       IF ok
         THEN /\ sessions' = SubSeq(sessions, 1, Len(sessions) - 1)
              /\ closed' = closed + 1
              /\ model' = ""
              /\ UNCHANGED <<pc, err>>
              /\ IF idx = LastIdx
                   THEN /\ status' = "done"
                        /\ UNCHANGED <<idx, step>>
                   ELSE /\ idx' = NextIdx(idx)
                        /\ step' = "mkdir"
                        /\ UNCHANGED status
         ELSE /\ Raise("Exception")
              /\ UNCHANGED <<sessions, closed, model, idx, step>>
  /\ UNCHANGED <<env, fs, kernel, effects, training, made, opened, started,
                 returned, failed>>

\* One execution of the notebook, top to bottom.
Execute ==
  \/ GpuCheck
  \/ ProjectSetup
  \/ InstallYolo
  \/ Inference
  \/ Credentials
  \/ Download
  \/ WandbSetup
  \/ MakeExperimentDir
  \/ WandbInit
  \/ LoadModel
  \/ TrainCall
  \/ TrainReturn
  \/ TrainFail
  \/ WandbFinish

\* The notebook is run again in a fresh kernel started from the same directory:
\* nothing of the stopped process survives but the directories it made.
Rerun ==
  /\ status \in {"done", "error"}
  /\ api_key' \in ApiKeys
  /\ UNCHANGED <<launchDir, fs>>
  /\ cwd' = launchDir
  /\ BASE' = <<>>
  /\ pc' = "gpu_check"
  /\ status' = "running"
  /\ err' = ""
  /\ effects' = {}
  /\ idx' = <<1, 1, 1, 1>>
  /\ step' = ""
  /\ sessions' = <<>>
  /\ model' = ""
  /\ training' = <<>>
  /\ made' = <<>>
  /\ opened' = 0
  /\ closed' = 0
  /\ started' = <<>>
  /\ returned' = 0
  /\ failed' = {}

Next == Execute

Spec == Init /\ [][Next]_vars

\* The kernel runs the next statement whenever there is one.
FairSpec == Spec /\ WF_vars(Next)

RerunNext == Execute \/ Rerun

RerunSpec == Init /\ [][RerunNext]_vars


-----------------------------------------------------------------------------
\* Reference notions the properties are stated with.

Range(q) == {q[n] : n \in DOMAIN q}
NoDuplicates(q) == Cardinality(Range(q)) = Len(q)

\* versions x epochs x batch_sizes x optimizers
Product ==
  [version : Range(versions), epoch : Range(epochs),
   batch_size : Range(batch_sizes), optimizer : Range(optimizers)]

GridSize == Len(versions) * Len(epochs) * Len(batch_sizes) * Len(optimizers)

\* The lexicographic enumeration of the product, model size outermost and
\* optimizer innermost, by rank.
Enumeration ==
  [n \in 1..GridSize |->
     LET m == n - 1
         o == m % Len(optimizers)
         b == (m \div Len(optimizers)) % Len(batch_sizes)
         e == (m \div (Len(optimizers) * Len(batch_sizes))) % Len(epochs)
         v == m \div (Len(optimizers) * Len(batch_sizes) * Len(epochs))
     IN [version |-> versions[v + 1], epoch |-> epochs[e + 1],
         batch_size |-> batch_sizes[b + 1], optimizer |-> optimizers[o + 1]]]

IsPrefixOfEnumeration(q) ==
  /\ Len(q) <= GridSize
  /\ \A n \in 1..Len(q) : q[n] = Enumeration[n]

Stopped == status \in {"done", "error"}

\* ROBOFLOW_API_KEY is absent or empty.
CredentialMissing == api_key = None \/ api_key = Str("")

\* Exceptions that only a delegated call raises.
DelegatedErrors == {"CalledProcessError", "FileNotFoundError", "Exception"}

\* C1: the driver always stops; with the credential present it stops in error
\* only if a delegated call raised, and otherwise it stops having called
\* model.train exactly once for each of the 5 x 4 x 4 x 2 = 160 combinations;
\* at no time has a combination been trained twice or a configuration outside
\* the product been trained.
C1_ExactlyOncePerCombination ==
  /\ [](NoDuplicates(started) /\ Range(started) \subseteq Product)
  /\ [](status = "error" /\ ~CredentialMissing => err \in DelegatedErrors)
  /\ [](status = "done" =>
          /\ ~CredentialMissing
          /\ GridSize = 160
          /\ Len(started) = 160
          /\ returned = 160
          /\ Range(started) = Product)
  /\ <>Stopped

C1_Witness == status = "done" /\ ~CredentialMissing /\ Len(started) = 160

\* C2: with ROBOFLOW_API_KEY absent or empty nothing is ever trained, no
\* dataset download and no tracking session is started, the execution never
\* gets past the credential cell, and once the check is reached it ends with
\* the missing-credential ValueError.
C2_NoTrainingWithoutCredential ==
  CredentialMissing =>
    /\ started = <<>> /\ training = <<>> /\ made = <<>>
    /\ opened = 0 /\ sessions = <<>>
    /\ effects \cap {"roboflow download", "wandb.login"} = {}
    /\ pc \in {"gpu_check", "project_setup", "install_yolo", "inference",
               "credentials"}
    /\ status # "done"
    /\ ("load_dotenv" \in effects => status = "error" /\ err = "ValueError")

C2_Witness ==
  /\ CredentialMissing /\ api_key = Str("")
  /\ status = "error" /\ err = "ValueError" /\ pc = "credentials"

\* C3: runs are strictly sequential in the nested order: at most one
\* model.train call is in progress, while one is in progress every earlier one
\* has returned, and the runs started so far are a prefix of the lexicographic
\* enumeration of the product.
C3_SequentialInNestedOrder ==
  /\ Len(training) <= 1
  /\ Len(started) = returned + Len(training) + Cardinality(failed)
  /\ Len(training) = 1 => returned = Len(started) - 1 /\ failed = {}
  /\ IsPrefixOfEnumeration(started)

C3_Witness ==
  /\ Len(training) = 1
  /\ Len(started) = 34
  /\ started[34] = [version |-> "s", epoch |-> 50, batch_size |-> 2,
                    optimizer |-> "SGD"]

\* C4: a model.train call that raises ends the grid: the execution is in the
\* error state, the failed combination is the last one attempted and was
\* attempted once, and no directory, session or training call exists for any
\* later combination.
C4_FailureAbortsGrid ==
  failed # {} =>
    /\ status = "error" /\ pc = "grid"
    /\ failed = {started[Len(started)]}
    /\ NoDuplicates(started)
    /\ started[Len(started)] = Args(idx)
    /\ Len(made) = Len(started)
    /\ opened = Len(started)
    /\ returned = Len(started) - 1
    /\ training = <<>>

C4_Witness ==
  /\ failed # {}
  /\ Len(started) = 7
  /\ Len(made) = 7

\* C5: the session of a run is closed however its training call finished: at
\* most one session is open, none is open when the next run starts, and none
\* is open once the grid has stopped after a training call returned or raised.
C5_SessionClosedHoweverTrainingFinished ==
  /\ Len(sessions) <= 1
  /\ (InRun("mkdir") \/ InRun("init")) => sessions = <<>>
  /\ (status = "done" \/ failed # {}) => sessions = <<>>


\* Hyperparameter values a run configuration may hold: the grid's own and the
\* small positive integers.
Nums == (1..MaxNum) \cup Range(epochs) \cup Range(batch_sizes)
ValidCombos ==
  [version : Range(versions), epoch : Nums, batch_size : Nums,
   optimizer : Range(optimizers)]
SampleHome == <<"work", "repo", "yolov8">>
PathInjective ==
  Cardinality({PathStr(experiment_path(SampleHome, c)) : c \in ValidCombos})
    = Cardinality(ValidCombos)

\* C6: distinct valid combinations never derive the same experiment directory,
\* and within one execution of the grid no experiment directory is made by
\* more than one run.
C6_DirectoryUniquePerCombination ==
  /\ PathInjective
  /\ NoDuplicates(made)
  /\ \A n \in 1..Len(started) :
       made[n] = PathStr(experiment_path(HOME, started[n]))

C6_Witness == status = "done" /\ Len(made) = 160 /\ Len(started) = 160

\* Decimal renderings of the grid's numbers, written out.
Decimal(n) ==
  CASE n = 2 -> "2" [] n = 4 -> "4" [] n = 8 -> "8" [] n = 16 -> "16"
    [] n = 50 -> "50" [] n = 100 -> "100" [] n = 150 -> "150" [] n = 200 -> "200"

ExpectedName(a) ==
  "epoch_" \o Decimal(a.epoch) \o "_batch_" \o Decimal(a.batch_size)
    \o "_optimizer_" \o a.optimizer
ExpectedDir(a) ==
  PathStr(HOME) \o "/experiments/yolov8" \o a.version \o "/" \o ExpectedName(a)
ExpectedRunName(a) == "yolov8" \o a.version \o "-" \o ExpectedName(a)

\* C7: every run's experiment directory is
\* <HOME>/experiments/yolov8<model_size>/epoch_<e>_batch_<b>_optimizer_<o>, its
\* session is named yolov8<model_size>-epoch_<e>_batch_<b>_optimizer_<o>, and
\* the session's dir and the training call's save_dir are that directory; for
\* (n, 50, 2, Adam) these are experiments/yolov8n/epoch_50_batch_2_optimizer_Adam
\* and yolov8n-epoch_50_batch_2_optimizer_Adam.
C7_DirectoryAndRunNameFormat ==
  /\ \A n \in 1..Len(made) : made[n] = ExpectedDir(Enumeration[n])
  /\ \A n \in 1..Len(sessions) :
       /\ sessions[n].name = ExpectedRunName(Args(idx))
       /\ sessions[n].dir = ExpectedDir(Args(idx))
  /\ \A n \in 1..Len(training) : training[n].save_dir = ExpectedDir(Args(idx))
  /\ (idx = <<1, 1, 1, 1>> /\ Len(made) = 1) =>
       made[1] = PathStr(HOME) \o "/experiments/yolov8n/epoch_50_batch_2_optimizer_Adam"
  /\ (idx = <<1, 1, 1, 1>> /\ sessions # <<>>) =>
       /\ sessions[1].name = "yolov8n-epoch_50_batch_2_optimizer_Adam"
       /\ sessions[1].dir =
            PathStr(HOME) \o "/experiments/yolov8n/epoch_50_batch_2_optimizer_Adam"
  /\ (idx = <<1, 1, 1, 1>> /\ training # <<>>) =>
       training[1].save_dir =
         PathStr(HOME) \o "/experiments/yolov8n/epoch_50_batch_2_optimizer_Adam"

C7_Witness ==
  /\ idx = <<1, 1, 1, 1>> /\ Len(training) = 1 /\ Len(sessions) = 1
  /\ HOME = <<"work", "repo", "yolov8">>
  /\ training[1].save_dir =
       "/work/repo/yolov8/experiments/yolov8n/epoch_50_batch_2_optimizer_Adam"

InitialDirs == Ancestors(launchDir) \cup {launchDir}

\* C8, as the specification words it: the missing-credential error is raised
\* before the execution has had any other effect.
C8_ErrorBeforeAnyWork ==
  err = "ValueError" => effects = {} /\ fs = InitialDirs

\* C8: the missing-credential error is raised in the credential cell, before
\* any dataset download, tracking login, session, experiment directory or
\* training call, and after the GPU check, the creation of the datasets
\* directory, the package checks for ultralytics, dotenv and roboflow and the
\* inference test have run.
C8_ErrorBeforeDownloadAndTraining ==
  err = "ValueError" =>
    /\ status = "error" /\ pc = "credentials" /\ CredentialMissing
    /\ effects = {"nvidia-smi", "mkdir datasets", "ensure_package_installed",
                  "ultralytics.checks", "yolo predict", "load_dotenv"}
    /\ fs = InitialDirs \cup {HOME, DATASETS_PATH}
    /\ cwd = HOME
    /\ made = <<>> /\ opened = 0 /\ sessions = <<>>
    /\ started = <<>> /\ training = <<>>

C8_Witness == err = "ValueError" /\ api_key = None /\ DATASETS_PATH \in fs


\* C9: running the notebook again after it stopped starts the grid over from
\* the first combination with no progress carried over (only the directories
\* remain), every combination is trained again in the same order, and making
\* an experiment directory that already exists succeeds, changes nothing on
\* disk and yields the same path.
C9_RerunRestartsGrid ==
  /\ [](err # "FileExistsError")
  /\ [][(Stopped /\ ~Stopped') =>
          /\ pc' = "gpu_check" /\ fs' = fs
          /\ started' = <<>> /\ made' = <<>> /\ returned' = 0]_vars
  /\ [][(pc # "grid" /\ pc' = "grid") =>
          idx' = <<1, 1, 1, 1>> /\ step' = "mkdir" /\ started' = <<>>]_vars
  /\ [][(started' # started /\ ~Stopped) =>
          started' = Append(started, Enumeration[Len(started) + 1])]_vars
  /\ [][InRun("mkdir") =>
          LET p == experiment_path(HOME, Enumeration[Len(made) + 1])
          IN /\ status' = "running" /\ step' = "init"
             /\ made' = Append(made, PathStr(p))
             /\ p \in fs'
             /\ p \in fs => fs' = fs]_vars

C9_Witness ==
  /\ Len(training) = 1 /\ Len(started) = 2
  /\ experiment_path(HOME, Enumeration[2]) \in fs
  /\ experiment_path(HOME, Enumeration[5]) \in fs
  /\ Len(made) = 2

\* The session metadata that matches a model.train call.
ConfigOf(call, version) ==
  [epochs |-> call.epochs, batch_size |-> call.batch, optimizer |-> call.optimizer,
   version |-> version]

\* C10: within every run the steps come in the order mkdir, wandb.init, YOLO
\* load, model.train, wandb.finish, and a run begins only when the one before
\* has finished; the session open during a training call carries exactly that
\* call's epochs, batch size, optimizer and version, an open session is always
\* that of the combination being run, and training never runs without it.
C10_StepOrderAndMatchingMetadata ==
  /\ closed <= returned /\ returned <= Len(started)
  /\ Len(started) <= opened /\ opened <= Len(made) /\ Len(made) <= closed + 1
  /\ (pc = "grid" /\ step \in {"train", "training"}) =>
       /\ model = "yolov8" \o Args(idx).version \o ".pt"
       /\ Len(sessions) = 1
       /\ opened = Len(made)
  /\ \A n \in 1..Len(sessions) :
       sessions[n].config =
         [epochs |-> Args(idx).epoch, batch_size |-> Args(idx).batch_size,
          optimizer |-> Args(idx).optimizer, version |-> Args(idx).version]
  /\ \A n \in 1..Len(training) :
       /\ Len(sessions) = 1
       /\ sessions[1].config = ConfigOf(training[n], Args(idx).version)
       /\ training[n].model = "yolov8" \o sessions[1].config.version \o ".pt"
       /\ started[Len(started)] = Args(idx)

C10_Witness ==
  /\ Len(training) = 1 /\ Len(started) = 100
  /\ sessions[1].config.version = "l" /\ training[1].optimizer = "SGD"

=============================================================================
